---- MODULE Spec2Model ----
(***************************************************************************)
(* Model of RaiBaseIE._extract_relinker_info and RaiBaseIE._create_http_urls *)
(* (yt_dlp/extractor/rai.py): one call of the relinker resolver, from the    *)
(* check of the resolution URL through the three profile lookups, the geo    *)
(* check and the two HEAD probes of the HTTPS quality-variant synthesis.     *)
(*                                                                           *)
(* Python values that may be None are kept as sequences of length at most    *)
(* one: None is <<>> and a value v is <<v>>.                                 *)
(***************************************************************************)
EXTENDS Integers, Sequences, FiniteSets, TLC

VARIABLES
    pc,             \* position in the call
    relinker_url,   \* argument relinker_url
    audio_only,     \* argument audio_only
    platform,       \* index in Platforms of the profile of the next lookup
    formats,        \* local formats
    geoprotection,  \* local geoprotection
    is_live,        \* local is_live
    duration,       \* local duration
    drm,            \* report_drm was called
    calls,          \* the requests issued so far, in order: <<kind, argument,
                    \* whether the request raised into the call>>
    seen,           \* what the replies received so far carried
    mobj,           \* the match of _RELINKER_REG in _create_http_urls
    result,         \* the returned dict, <<>> while none is returned
    error,          \* the exception that left the call, NoError while none
    probe,          \* the <url> element of the reply last read, recorded
                    \* when probe.recording is set at the start
    page,           \* a call of RaiIE._real_extract or RaiNewsIE._real_extract
    subs            \* a call of _extract_subtitles

vars == <<pc, relinker_url, audio_only, platform, formats, geoprotection,
          is_live, duration, drm, calls, seen, mobj, result, error,
          probe, page, subs>>

None == <<>>

Some(v) == <<v>>

\* ------------------------------------------------------------------ bounds

\* longest comma-separated quality list carried by a redirect target
MaxQualities == 2

\* ------------------------------------------------------------- yt_dlp.utils

\* the decimal strings the model reads or prints, with their values
IntOf ==
    ("-1" :> -1) @@ ("0" :> 0) @@ ("250" :> 250) @@ ("300" :> 300) @@
    ("400" :> 400) @@ ("480" :> 480) @@ ("500" :> 500) @@ ("1800" :> 1800)

\* int_or_none(v): the integer a string denotes, None for None and for a
\* string that denotes none (such as '*')
int_or_none(v) ==
    IF v # None /\ v[1] \in DOMAIN IntOf THEN Some(IntOf[v[1]]) ELSE None

\* compat_str(n) of an integer n
compat_str(n) == CHOOSE s \in DOMAIN IntOf : IntOf[s] = n

\* int(s) of a decimal string
int(s) == IntOf[s]

\* math.floor(x / 100)
floor100(x) == x \div 100

\* the <duration> texts of the model with what parse_duration makes of them
DurationOf == ("00:00:00" :> 0) @@ ("00:00:07" :> 7)

\* parse_duration(s): seconds, None for None and for an unparsable text
parse_duration(s) ==
    IF s # None /\ s[1] \in DOMAIN DurationOf THEN Some(DurationOf[s[1]]) ELSE None

\* truth value of an optional number: None and 0 are false
TruthyNum(v) == v # None /\ v[1] # 0

\* truth value of an optional boolean: None and False are false
TruthyBool(v) == v # None /\ v[1]

\* filter_dict(d): d without the keys whose value is None
filter_dict(d) == [k \in {x \in DOMAIN d : d[x] # None} |-> d[k]]

\* ------------------------------------------------------------------- URLs

\* a media URL, by the parts the code looks at: the file name and the
\* extension of its path, and its query
Url(name, ext, query) == [name |-> name, ext |-> ext, query |-> query]

\* determine_ext(url): the extension of the path
determine_ext(url) == url.ext

\* '/video_no_available.mp4' in media_url
IsPlaceholder(url) == url.name = "video_no_available" /\ url.ext = "mp4"

\* 'format=m3u8' in media_url
HasM3u8Marker(url) == url.query = "format=m3u8"

\* IsHttpUrl without the test
IsHttpUrlUnchecked(u) == TRUE

\* re.match(r'https?://', relinker_url)
IsHttpUrl(u) == u.scheme \in {"http", "https"}

RelinkerUrls == {[scheme |-> "https", rest |-> "relinker?cont=x"],
                 [scheme |-> "", rest |-> "clip.mp4"]}

MediaUrls == {
    Url("video_no_available", "mp4", ""),
    Url("clip", "mp3", ""),
    Url("clip", "m3u8", ""),
    Url("clip", "f4m", ""),
    Url("clip", "mp4", ""),
    Url("clip", "mp4", "format=m3u8") }

\* ---------------------------------------------------------------- formats

NoFormat == [url |-> None, format_id |-> None, vcodec |-> None, acodec |-> None,
             tbr |-> None, width |-> None, height |-> None, fps |-> None,
             protocol |-> None, ext |-> None]

\* a rendition as the manifest parsers of the framework return it
Rendition(kind, tbr, w, h) ==
    [NoFormat EXCEPT !.url = Some([manifest |-> kind, rendition |-> tbr]),
                     !.format_id = Some(<<kind>> \o (IF tbr = None THEN <<>> ELSE <<compat_str(tbr[1])>>)),
                     !.vcodec = Some("avc1"), !.acodec = Some("mp4a"),
                     !.tbr = tbr, !.width = Some(w), !.height = Some(h),
                     !.fps = Some(25), !.protocol = Some(kind)]

\* what _extract_m3u8_formats(..., fatal=False) may return: nothing (also on
\* failure) or the renditions of the manifest
M3u8Results == {
    <<>>,
    <<Rendition("hls", Some(480), 512, 288), Rendition("hls", Some(1800), 1024, 576)>> }

\* what _extract_f4m_formats(..., fatal=False) may return
F4mResults == {
    <<>>,
    <<Rendition("hds", None, 512, 288)>> }

\* ------------------------------------------------------ the relinker reply

Platforms == <<"mon", "flash", "native">>

\* the parsed XML reply of one profile lookup, by the elements the code
\* reads: absent elements are None
Relinker(license_url, geo, live, dur, url, bitrate) ==
    [license_url |-> license_url, geoprotection |-> geo, is_live |-> live,
     duration |-> dur, url |-> url, bitrate |-> bitrate]

FlagTexts == {None, Some("Y"), Some("N")}

DurationTexts == {None, Some("00:00:00"), Some("00:00:07")}

BitrateTexts == {None, Some("-1"), Some("0"), Some("480")}

\* the replies the model draws from: a <license_url> comes with an HLS URL
\* only, and a <bitrate> with a plain file URL only, the one place where the
\* code reads it
Relinkers ==
    { Relinker(None, g, v, d, u, None) :
        g \in FlagTexts, v \in FlagTexts, d \in DurationTexts,
        u \in {None} \cup {Some(m) : m \in MediaUrls \ {Url("clip", "mp4", "")}} }
    \cup
    { Relinker(Some("licence"), g, v, d, Some(Url("clip", "m3u8", "")), None) :
        g \in FlagTexts, v \in FlagTexts, d \in DurationTexts }
    \cup
    { Relinker(None, g, v, d, Some(Url("clip", "mp4", "")), b) :
        g \in FlagTexts, v \in FlagTexts, d \in DurationTexts, b \in BitrateTexts }

\* xpath_text(relinker, './license_url', default='{}') != '{}'
HasLicense(relinker) == relinker.license_url # None

\* ------------------------------------------------------- _create_http_urls

\* _MP4_TMPL % (relinker_url, q)
Mp4Tmpl(url, q) == [relinker_url |-> url, query |-> <<"overrideUserAgentRule=mp4-", q>>]

\* _QUALITY
Quality ==
    ("250" :> <<352, 198>>) @@ ("400" :> <<512, 288>>) @@ ("700" :> <<512, 288>>) @@
    ("800" :> <<700, 394>>) @@ ("1200" :> <<736, 414>>) @@ ("1800" :> <<1024, 576>>) @@
    ("2400" :> <<1280, 720>>) @@ ("3200" :> <<1440, 810>>) @@ ("3600" :> <<1440, 810>>) @@
    ("5000" :> <<1920, 1080>>) @@ ("10000" :> <<1920, 1080>>)

\* the quality tokens a redirect target may carry
Tokens == {"250", "300", "400", "500"}

\* the file name of a redirect target is a sequence of atoms: the word
\* "clip", the underscore, a quality token (a run of digits) or the comma
IsWordAtom(a) == a # ","

IsQualityAtom(a) == a = "," \/ a \in Tokens

RECURSIVE Join(_)
\* the tokens ts with a comma between each two
Join(ts) ==
    IF Len(ts) <= 1 THEN ts ELSE <<ts[1], ",">> \o Join(Tail(ts))

\* the quality lists: up to MaxQualities tokens in ascending order
TokenLists ==
    { ts \in UNION {[1..n -> Tokens] : n \in 1..MaxQualities} :
        \A i \in 1..(Len(ts) - 1) : IntOf[ts[i]] < IntOf[ts[i + 1]] }

\* clip.mp4, clip_250,400.mp4 and clip_,250,400,.mp4
FileNames ==
    {<<"clip">>}
    \cup {<<"clip", "_">> \o Join(ts) : ts \in TokenLists}
    \cup {<<"clip", "_", ",">> \o Join(ts) \o <<",">> : ts \in TokenLists}

\* the URL https://host/extra/path/<fname>.<ext>?auth=1
Target(fname, ext) == [fname |-> fname, ext |-> ext]

Targets == {Target(f, "mp4") : f \in FileNames} \cup {Target(<<"clip">>, "mp3")}

\* a failed match (None in the code)
NoMatch == [matched |-> FALSE, quality |-> None]

RECURSIVE MatchId(_, _)
\* _RELINKER_REG on a file name, the group id tried on its first k atoms and
\* then on fewer (\w+ is greedy and backtracks): the group quality is tried
\* on all that follows an underscore, and left out when nothing follows id
MatchId(fname, k) ==
    LET rest == SubSeq(fname, k + 1, Len(fname))
    IN  IF k = 0 THEN NoMatch
        ELSE IF \E i \in 1..k : ~IsWordAtom(fname[i]) THEN MatchId(fname, k - 1)
        ELSE IF Len(rest) >= 2 /\ rest[1] = "_"
                /\ \A i \in 2..Len(rest) : IsQualityAtom(rest[i])
             THEN [matched |-> TRUE, quality |-> Some(Tail(rest))]
        ELSE IF rest = <<>> THEN [matched |-> TRUE, quality |-> None]
        ELSE MatchId(fname, k - 1)

\* re.match(_RELINKER_REG, s) for s a redirect target or ''
RelinkerReg(s) ==
    IF s = None \/ s[1].ext # "mp4" THEN NoMatch
    ELSE MatchId(s[1].fname, Len(s[1].fname))

RECURSIVE Split(_, _)
\* s.split(',') of the atoms s, word the atoms since the last comma joined
\* (a file name of the model never has two tokens in a row)
Split(s, word) ==
    IF s = <<>> THEN <<word>>
    ELSE IF Head(s) = "," THEN <<word>> \o Split(Tail(s), "")
    ELSE Split(Tail(s), Head(s))

\* line 196
QualityList(m) ==
    IF m.quality # None THEN Split(m.quality[1], "") ELSE <<"*">>

\* NonEmpty keeping the empty strings
KeepEmpty(qualities) == qualities

\* line 197
NonEmpty(qualities) == SelectSeq(qualities, LAMBDA q : q # "")

\* available_qualities after lines 196-197
AvailableQualities(m) == NonEmpty(QualityList(m))

\* the reply to a HEAD request: failed when the request raised, else the
\* status and the final URL, None standing for the requested URL itself and
\* a target for the URL a redirect led to
HeadReply(failed, code, location) ==
    [failed |-> failed, code |-> code, location |-> location]

HeadReplies(targets) ==
    {HeadReply(TRUE, 0, None), HeadReply(FALSE, 404, None), HeadReply(FALSE, 200, None)}
    \cup {HeadReply(FALSE, 200, Some(t)) : t \in targets}

\* test_url(url) given the reply: False, None or the redirect target
test_url(resp) ==
    IF resp.failed THEN [type |-> "bool", str |-> None]
    ELSE IF resp.code = 200
         THEN IF resp.location = None THEN [type |-> "bool", str |-> None]
              ELSE [type |-> "str", str |-> resp.location]
    ELSE [type |-> "NoneType", str |-> None]

\* fmts = [f for f in fmts if not f.get('vcodec') == 'none']
VideoFormats(fmts) == SelectSeq(fmts, LAMBDA f : f.vcodec # Some("none"))

\* br after lines 156-158 of get_format_info
TargetBitrate(q, fmts) ==
    LET br == int_or_none(Some(q))
    IN  IF Len(fmts) = 1 /\ ~TruthyNum(br) THEN fmts[1].tbr ELSE br

\* the threshold of line 159
BaselineLimit == 300

\* tbr after lines 159-162 of get_format_info
Tier(br) ==
    IF TruthyNum(br) /\ br[1] > BaselineLimit
    THEN compat_str(floor100(br[1]) * 100) ELSE "250"

\* the test of line 169
InBucket(br, f) ==
    LET br_limit == floor100(br[1])
    IN  br_limit - 1 <= floor100(f.tbr[1]) /\ floor100(f.tbr[1]) <= br_limit + 1

RECURSIVE FormatCopy(_, _, _)
\* format_copy after the loop of lines 166-170 over fmts[i..]: the last
\* format in the bucket of br, None when there is none
FormatCopy(br, fmts, i) ==
    IF i > Len(fmts) THEN None
    ELSE LET later == FormatCopy(br, fmts, i + 1)
         IN  IF later # None THEN later
             ELSE IF TruthyNum(fmts[i].tbr) /\ InBucket(br, fmts[i])
                  THEN Some(fmts[i]) ELSE None

\* get_format_info(q): the fields it returns, or the exception it raises
get_format_info(q, fmts) ==
    LET br == TargetBitrate(q, fmts)
        tbr == Tier(br)
    IN  IF br = None /\ \E i \in 1..Len(fmts) : TruthyNum(fmts[i].tbr)
        THEN [raises |-> "TypeError", info |-> NoFormat]
        ELSE LET format_copy == FormatCopy(br, fmts, 1)
             IN  IF format_copy # None
                 THEN [raises |-> "",
                       info |-> [NoFormat EXCEPT
                           !.width = format_copy[1].width,
                           !.height = format_copy[1].height,
                           !.tbr = format_copy[1].tbr,
                           !.vcodec = format_copy[1].vcodec,
                           !.acodec = format_copy[1].acodec,
                           !.fps = format_copy[1].fps,
                           !.format_id = Some(<<"https", tbr>>)]]
                 ELSE IF tbr \notin DOMAIN Quality
                 THEN [raises |-> "KeyError", info |-> NoFormat]
                 ELSE [raises |-> "",
                       info |-> [NoFormat EXCEPT
                           !.width = Some(Quality[tbr][1]),
                           !.height = Some(Quality[tbr][2]),
                           !.format_id = Some(<<"https", tbr>>),
                           !.tbr = Some(int(tbr))]]

\* the descriptor of lines 201-206 for the token q
HttpFormat(url, q, info) ==
    [info EXCEPT !.url = Some(Mp4Tmpl(url, q)),
                 !.protocol = Some("https"), !.ext = Some("mp4")]

RECURSIVE HttpFormats(_, _, _, _)
\* the loop of lines 199-208 over qualities[i..]: the descriptors, or the
\* exception of the first token whose get_format_info raises
HttpFormats(url, qualities, fmts, i) ==
    IF i > Len(qualities) THEN [raises |-> "", formats |-> <<>>]
    ELSE LET got == get_format_info(qualities[i], fmts)
             more == HttpFormats(url, qualities, fmts, i + 1)
         IN  IF got.raises # "" THEN [raises |-> got.raises, formats |-> <<>>]
             ELSE IF more.raises # "" THEN more
             ELSE [raises |-> "",
                   formats |-> <<HttpFormat(url, qualities[i], got.info)>> \o more.formats]

\* ---------------------------------------------------- _extract_relinker_info

\* _GEO_COUNTRIES
GeoCountries == <<"IT">>

NoError == [type |-> "", countries |-> None, metadata_available |-> FALSE]

Raised(type) == [NoError EXCEPT !.type = type]

\* raise_geo_restricted(countries=..., metadata_available=...)
GeoRestricted(countries, available) ==
    [type |-> "GeoRestrictedError", countries |-> Some(countries),
     metadata_available |-> available]

\* LatchFlag taking the reply's value every time (last wins)
LatchFlagLastWins(flag, text) == Some(text = Some("Y"))

\* lines 57-59 and 61-63: a flag that is not yet true takes the reply's
LatchFlag(flag, text) ==
    IF ~TruthyBool(flag) THEN Some(text = Some("Y")) ELSE flag

\* lines 64-66: a duration that is not yet non-zero takes the reply's
LatchDuration(dur, text) ==
    IF ~TruthyNum(dur) THEN parse_duration(text) ELSE dur

\* Classify without the placeholder test of lines 76-77
ClassifyPlaceholderKept(p, relinker) ==
    LET media_url == relinker.url[1]
        ext == determine_ext(media_url)
    IN  IF relinker.url = None THEN "continue"
        ELSE IF (ext = "m3u8" /\ p # "mon") \/ (ext = "f4m" /\ p # "flash") THEN "continue"
        ELSE IF ext = "mp3" THEN "mp3"
        ELSE IF ext = "m3u8" \/ HasM3u8Marker(media_url) \/ p = "mon" THEN "m3u8"
        ELSE IF ext = "f4m" \/ p = "flash" THEN "f4m"
        ELSE "file"

\* Classify without the mon default of line 91
ClassifyNoMonDefault(p, relinker) ==
    LET media_url == relinker.url[1]
        ext == determine_ext(media_url)
    IN  IF relinker.url = None THEN "continue"
        ELSE IF IsPlaceholder(media_url) THEN "continue"
        ELSE IF (ext = "m3u8" /\ p # "mon") \/ (ext = "f4m" /\ p # "flash") THEN "continue"
        ELSE IF ext = "mp3" THEN "mp3"
        ELSE IF ext = "m3u8" \/ HasM3u8Marker(media_url) THEN "m3u8"
        ELSE IF ext = "f4m" \/ p = "flash" THEN "f4m"
        ELSE "file"

\* lines 68-101: what the loop body does with the reply of profile p
Classify(p, relinker) ==
    LET media_url == relinker.url[1]
        ext == determine_ext(media_url)
    IN  IF relinker.url = None THEN "continue"
        ELSE IF IsPlaceholder(media_url) THEN "continue"
        ELSE IF (ext = "m3u8" /\ p # "mon") \/ (ext = "f4m" /\ p # "flash") THEN "continue"
        ELSE IF ext = "mp3" THEN "mp3"
        ELSE IF ext = "m3u8" \/ HasM3u8Marker(media_url) \/ p = "mon" THEN "m3u8"
        ELSE IF ext = "f4m" \/ p = "flash" THEN "f4m"
        ELSE "file"

\* Mp3Format without its vcodec
Mp3FormatNoVcodec(media_url) ==
    [NoFormat EXCEPT !.url = Some(media_url),
                     !.acodec = Some("mp3"), !.format_id = Some(<<"http", "mp3">>)]

\* lines 84-89
Mp3Format(media_url) ==
    [NoFormat EXCEPT !.url = Some(media_url), !.vcodec = Some("none"),
                     !.acodec = Some("mp3"), !.format_id = Some(<<"http", "mp3">>)]

\* lines 103-107, for a bitrate that is a number
FileFormat(media_url, bitrate) ==
    [NoFormat EXCEPT
        !.url = Some(media_url),
        !.tbr = IF bitrate > 0 THEN Some(bitrate) ELSE None,
        !.format_id = Some(<<"http", IF bitrate > 0 THEN compat_str(bitrate) ELSE "http">>)]

\* Outcome without filter_dict
OutcomeUnfiltered(live, dur, fmts) ==
    [is_live |-> live, duration |-> dur, formats |-> Some(fmts)]

\* lines 115-119
Outcome(live, dur, fmts) ==
    filter_dict([is_live |-> live, duration |-> dur, formats |-> Some(fmts)])

\* the history of the replies: per element the first text present, whether a
\* 'Y' came, the first duration that parsed to a non-zero number, the number
\* of replies and whether each of them carried the placeholder URL
NothingSeen ==
    [first_geo |-> None, first_live |-> None, first_duration |-> None,
     geo_y |-> FALSE, live_y |-> FALSE, nonzero_duration |-> None,
     replies |-> 0, only_placeholders |-> TRUE]

Saw(s, relinker) ==
    [first_geo |-> IF s.first_geo = None THEN relinker.geoprotection ELSE s.first_geo,
     first_live |-> IF s.first_live = None THEN relinker.is_live ELSE s.first_live,
     first_duration |-> IF s.first_duration = None THEN relinker.duration ELSE s.first_duration,
     geo_y |-> s.geo_y \/ relinker.geoprotection = Some("Y"),
     live_y |-> s.live_y \/ relinker.is_live = Some("Y"),
     nonzero_duration |->
        IF s.nonzero_duration = None /\ TruthyNum(parse_duration(relinker.duration))
        THEN parse_duration(relinker.duration) ELSE s.nonzero_duration,
     replies |-> s.replies + 1,
     only_placeholders |->
        s.only_placeholders /\ relinker.url # None /\ IsPlaceholder(relinker.url[1])]

\* the other entry points are not called
NoPage == [pc |-> "none"]

NoSubs == [pc |-> "none"]

\* a call of _extract_relinker_info starts
Start ==
    /\ pc = "start"
    /\ relinker_url \in RelinkerUrls
    /\ audio_only \in BOOLEAN
    /\ platform = 1
    /\ formats = <<>>
    /\ geoprotection = None
    /\ is_live = None
    /\ duration = None
    /\ drm = FALSE
    /\ calls = <<>>
    /\ seen = NothingSeen
    /\ mobj = NoMatch
    /\ result = None
    /\ error = NoError
    /\ page = NoPage
    /\ subs = NoSubs

Init == Start /\ probe = [recording |-> FALSE, url_elem |-> None]

\* lines 38-39: a URL that is no http(s) URL is returned as the one format
ReturnLiteral ==
    /\ pc = "start"
    /\ ~IsHttpUrl(relinker_url)
    /\ result' = Some([formats |-> Some(<<[NoFormat EXCEPT !.url = Some(relinker_url)]>>)])
    /\ pc' = "returned"
    /\ UNCHANGED <<probe, page, subs, relinker_url, audio_only, platform, formats, geoprotection,
                   is_live, duration, drm, calls, seen, mobj, error>>

\* lines 41-46: the loop is entered
EnterLoop ==
    /\ pc = "start"
    /\ IsHttpUrl(relinker_url)
    /\ pc' = "lookup"
    /\ UNCHANGED <<probe, page, subs, relinker_url, audio_only, platform, formats, geoprotection,
                   is_live, duration, drm, calls, seen, mobj, result, error>>

\* NextLookup without the break of line 90
NextLookupNoBreak(stop) ==
    IF platform = Len(Platforms)
    THEN pc' = "after_loop" /\ platform' = platform
    ELSE pc' = "lookup" /\ platform' = platform + 1

\* where the loop goes after the body: the next profile, or past the loop
\* after the last profile and after break
NextLookup(stop) ==
    IF stop \/ platform = Len(Platforms)
    THEN pc' = "after_loop" /\ platform' = platform
    ELSE pc' = "lookup" /\ platform' = platform + 1

\* LookupFails with the failure of a secondary profile swallowed
LookupFailsSecondarySwallowed ==
    /\ pc = "lookup"
    /\ calls' = Append(calls, <<"xml", Platforms[platform], TRUE>>)
    /\ IF platform = 1
       THEN error' = Raised("ExtractorError") /\ pc' = "raised" /\ platform' = platform
       ELSE NextLookup(FALSE) /\ error' = error
    /\ UNCHANGED <<probe, page, subs, relinker_url, audio_only, formats, geoprotection,
                   is_live, duration, drm, seen, mobj, result>>

\* lines 47-52: _download_xml raises, for whichever profile
LookupFails ==
    /\ pc = "lookup"
    /\ calls' = Append(calls, <<"xml", Platforms[platform], TRUE>>)
    /\ error' = Raised("ExtractorError")
    /\ pc' = "raised"
    /\ UNCHANGED <<probe, page, subs, relinker_url, audio_only, platform, formats, geoprotection,
                   is_live, duration, drm, seen, mobj, result>>

\* lines 47-66, common to every reply
ReadReply(relinker) ==
    /\ drm' = (drm \/ HasLicense(relinker))
    /\ geoprotection' = LatchFlag(geoprotection, relinker.geoprotection)
    /\ is_live' = LatchFlag(is_live, relinker.is_live)
    /\ duration' = LatchDuration(duration, relinker.duration)
    /\ seen' = Saw(seen, relinker)
    /\ probe' = IF probe.recording THEN [probe EXCEPT !.url_elem = relinker.url]
                                   ELSE probe

\* lines 47-107: one pass of the loop body with the reply relinker
Lookup(relinker) ==
    LET p == Platforms[platform]
        class == Classify(p, relinker)
        media_url == relinker.url[1]
        xml == <<"xml", p, FALSE>>
    IN  /\ pc = "lookup"
        /\ ReadReply(relinker)
        /\ \/ /\ class = "continue"
              /\ calls' = Append(calls, xml)
              /\ NextLookup(FALSE)
              /\ UNCHANGED <<formats, error>>
           \/ /\ class = "mp3"
              /\ calls' = Append(calls, xml)
              /\ formats' = Append(formats, Mp3Format(media_url))
              /\ NextLookup(TRUE)
              /\ UNCHANGED error
           \/ /\ class = "m3u8"
              /\ calls' = calls \o <<xml, <<"m3u8", p, FALSE>>>>
              /\ \E got \in M3u8Results : formats' = formats \o got
              /\ NextLookup(FALSE)
              /\ UNCHANGED error
           \/ /\ class = "f4m"
              /\ calls' = calls \o <<xml, <<"f4m", p, FALSE>>>>
              /\ \E got \in F4mResults : formats' = formats \o got
              /\ NextLookup(FALSE)
              /\ UNCHANGED error
           \/ /\ class = "file"
              /\ int_or_none(relinker.bitrate) # None
              /\ calls' = Append(calls, xml)
              /\ formats' = Append(formats,
                    FileFormat(media_url, int_or_none(relinker.bitrate)[1]))
              /\ NextLookup(FALSE)
              /\ UNCHANGED error
           \/ /\ class = "file"
              /\ int_or_none(relinker.bitrate) = None
              /\ calls' = Append(calls, xml)
              /\ error' = Raised("TypeError")
              /\ pc' = "raised"
              /\ UNCHANGED <<formats, platform>>
        /\ UNCHANGED <<page, subs, relinker_url, audio_only, mobj, result>>

\* GeoCheckRaises without metadata_available=True
GeoCheckRaisesUnavailable ==
    /\ pc = "after_loop"
    /\ formats = <<>> /\ geoprotection = Some(TRUE)
    /\ error' = GeoRestricted(GeoCountries, FALSE)
    /\ pc' = "raised"
    /\ UNCHANGED <<probe, page, subs, relinker_url, audio_only, platform, formats, geoprotection,
                   is_live, duration, drm, calls, seen, mobj, result>>

\* lines 109-110
GeoCheckRaises ==
    /\ pc = "after_loop"
    /\ formats = <<>> /\ geoprotection = Some(TRUE)
    /\ error' = GeoRestricted(GeoCountries, TRUE)
    /\ pc' = "raised"
    /\ UNCHANGED <<probe, page, subs, relinker_url, audio_only, platform, formats, geoprotection,
                   is_live, duration, drm, calls, seen, mobj, result>>

\* ReturnAudioOnly failing when there is no format
ReturnAudioOnlyNoFormatsFatal ==
    /\ pc = "after_loop"
    /\ ~(formats = <<>> /\ geoprotection = Some(TRUE))
    /\ audio_only
    /\ IF formats = <<>>
       THEN error' = Raised("ExtractorError") /\ pc' = "raised" /\ result' = result
       ELSE result' = Some(Outcome(is_live, duration, formats)) /\ pc' = "returned"
                /\ error' = error
    /\ UNCHANGED <<probe, page, subs, relinker_url, audio_only, platform, formats,
                   geoprotection, is_live, duration, drm, calls, seen, mobj>>

\* lines 112 and 115-119 with audio_only
ReturnAudioOnly ==
    /\ pc = "after_loop"
    /\ ~(formats = <<>> /\ geoprotection = Some(TRUE))
    /\ audio_only
    /\ result' = Some(Outcome(is_live, duration, formats))
    /\ pc' = "returned"
    /\ UNCHANGED <<probe, page, subs, relinker_url, audio_only, platform, formats, geoprotection,
                   is_live, duration, drm, calls, seen, mobj, error>>

\* CreateHttpUrls whatever audio_only is
CreateHttpUrlsAudioToo ==
    /\ pc = "after_loop"
    /\ ~(formats = <<>> /\ geoprotection = Some(TRUE))
    /\ pc' = "head_override"
    /\ UNCHANGED <<probe, page, subs, relinker_url, audio_only, platform, formats,
                   geoprotection, is_live, duration, drm, calls, seen, mobj,
                   result, error>>

\* lines 112-113: _create_http_urls is called
CreateHttpUrls ==
    /\ pc = "after_loop"
    /\ ~(formats = <<>> /\ geoprotection = Some(TRUE))
    /\ ~audio_only
    /\ pc' = "head_override"
    /\ UNCHANGED <<probe, page, subs, relinker_url, audio_only, platform, formats, geoprotection,
                   is_live, duration, drm, calls, seen, mobj, result, error>>

\* lines 186-188 and, when the reply is no redirect, 113-119
HeadOverride(resp) ==
    LET loc == test_url(resp)
    IN  /\ pc = "head_override"
        /\ calls' = Append(calls, <<"head", "mp4-*", FALSE>>)
        /\ IF loc.type # "str"
           THEN /\ result' = Some(Outcome(is_live, duration, formats \o <<>>))
                /\ pc' = "returned"
           ELSE /\ pc' = "head_bare"
                /\ UNCHANGED result
        /\ UNCHANGED <<probe, page, subs, relinker_url, audio_only, platform, formats, geoprotection,
                       is_live, duration, drm, seen, mobj, error>>

\* lines 190-208 and 113-119
HeadBare(resp) ==
    LET m == RelinkerReg(test_url(resp).str)
        made == IF m.matched
                THEN HttpFormats(relinker_url, AvailableQualities(m),
                                 VideoFormats(formats), 1)
                ELSE [raises |-> "", formats |-> <<>>]
    IN  /\ pc = "head_bare"
        /\ mobj' = m
        /\ calls' = Append(calls, <<"head", "", FALSE>>)
        /\ IF made.raises # ""
           THEN /\ error' = Raised(made.raises)
                /\ pc' = "raised"
                /\ UNCHANGED <<formats, result>>
           ELSE /\ formats' = formats \o made.formats
                /\ result' = Some(Outcome(is_live, duration, formats'))
                /\ pc' = "returned"
                /\ UNCHANGED error
        /\ UNCHANGED <<probe, page, subs, relinker_url, audio_only, platform, geoprotection,
                       is_live, duration, drm, seen>>

Next ==
    \/ ReturnLiteral
    \/ EnterLoop
    \/ LookupFails
    \/ \E relinker \in Relinkers : Lookup(relinker)
    \/ GeoCheckRaises
    \/ ReturnAudioOnly
    \/ CreateHttpUrls
    \/ \E resp \in HeadReplies({Target(<<"clip">>, "mp4")}) : HeadOverride(resp)
    \/ \E resp \in HeadReplies(Targets) : HeadBare(resp)

Spec == Init /\ [][Next]_vars

\* the probe loop alone, with the <url> element of each reply recorded
InitProbe == Start /\ probe = [recording |-> TRUE, url_elem |-> None]

NextProbe ==
    \/ ReturnLiteral
    \/ EnterLoop
    \/ LookupFails
    \/ \E relinker \in Relinkers : Lookup(relinker)

SpecProbe == InitProbe /\ [][NextProbe]_vars

\* ------------------------------------- RaiIE and RaiNewsIE: _real_extract
\* no call of _extract_relinker_info is followed step by step
NoCall ==
    /\ pc = "none"
    /\ relinker_url = None
    /\ audio_only = FALSE
    /\ platform = 1
    /\ formats = <<>>
    /\ geoprotection = None
    /\ is_live = None
    /\ duration = None
    /\ drm = FALSE
    /\ calls = <<>>
    /\ seen = NothingSeen
    /\ mobj = NoMatch
    /\ result = None
    /\ error = NoError
    /\ probe = [recording |-> FALSE, url_elem |-> None]

\* video_id = self._match_id(url)
VideoId == "video-uuid"

\* a ContentItem id of the web page that differs from video_id
OtherId == "item-uuid"

\* an exception with its message, countries and cause; the type "" stands
\* for a call that returned
PageError(type, msg) ==
    [type |-> type, msg |-> msg, countries |-> None, cause |-> ""]

NoPageError == PageError("", "")

\* the exception of raise_geo_restricted(countries=self._GEO_COUNTRIES, ...)
GeoRestrictedError ==
    [PageError("GeoRestrictedError", "geo restricted")
        EXCEPT !.countries = Some(GeoCountries)]

\* how a call of _extract_relinker_info ends: it returns, or it raises
\* GeoRestrictedError, ExtractorError or TypeError
RelinkerInfos ==
    {NoPageError, GeoRestrictedError,
     PageError("ExtractorError", "relinker"), PageError("TypeError", "")}

\* the reply to 'Downloading video JSON': whether the download gave a dict,
\* whether that has 'name', its 'type', whether it has the URL of its type
Medias ==
    {[json |-> FALSE, name |-> FALSE, type |-> "", url |-> FALSE]} \cup
    {[json |-> TRUE, name |-> FALSE, type |-> "Video", url |-> TRUE]} \cup
    [json : {TRUE}, name : {TRUE}, type : {"Audio", "Video", "Page"},
     url : BOOLEAN]

\* _extract_from_content_id with the reply media, and info the end of the
\* call of _extract_relinker_info it makes for a video
extract_from_content_id(media, info) ==
    IF ~media.json THEN PageError("ExtractorError", "Downloading video JSON")
    ELSE IF ~media.name THEN PageError("KeyError", "name")
    ELSE IF media.type = "Audio"
    THEN IF media.url THEN NoPageError ELSE PageError("KeyError", "audioUrl")
    ELSE IF media.type = "Video"
    THEN IF media.url THEN info ELSE PageError("KeyError", "mediaUri")
    ELSE PageError("ExtractorError", "not a media file")

\* except GeoRestrictedError: raise / except ExtractorError: the handler
\* of ExtractorError takes the exception
HandledAsExtractorErrorGeoToo(e) ==
    e.type \in {"ExtractorError", "GeoRestrictedError"}
HandledAsExtractorError(e) == e.type = "ExtractorError"

\* the orders in which the set content_item_ids is iterated
ContentItemIds(content_item_id) ==
    IF content_item_id = None \/ content_item_id = Some(VideoId)
    THEN {<<VideoId>>}
    ELSE {<<content_item_id[1], VideoId>>, <<VideoId, content_item_id[1]>>}

PageStart(extractor) ==
    [pc |-> "start", extractor |-> extractor, content_item_ids |-> <<>>,
     tried |-> <<>>, scraped |-> FALSE, relinker |-> FALSE,
     result |-> None, error |-> NoPageError]

\* _real_extract is called
InitPage ==
    /\ NoCall
    /\ subs = NoSubs
    /\ \E extractor \in {"RaiIE", "RaiNewsIE"} : page = PageStart(extractor)

UnchangedCall ==
    UNCHANGED <<pc, relinker_url, audio_only, platform, formats, geoprotection,
                is_live, duration, drm, calls, seen, mobj, result, error,
                probe, subs>>

\* _download_webpage raises
DownloadWebpageFails ==
    /\ page.pc = "start"
    /\ page' = [page EXCEPT !.pc = "raised",
                    !.error = PageError("ExtractorError", "Downloading webpage")]
    /\ UnchangedCall

\* RaiIE: the web page is read and content_item_ids is built
CollectContentItemIds(content_item_id) ==
    /\ page.pc = "start"
    /\ page.extractor = "RaiIE"
    /\ \E ids \in ContentItemIds(content_item_id) :
            page' = [page EXCEPT !.pc = "candidates", !.content_item_ids = ids]
    /\ UnchangedCall

\* RaiIE: one turn of the loop over content_item_ids
TryContentId(media, info) ==
    /\ page.pc = "candidates"
    /\ LET id == page.content_item_ids[Len(page.tried) + 1]
           e == extract_from_content_id(media, info)
           tried == Append(page.tried, [id |-> id, error |-> e])
       IN  IF e = NoPageError
           THEN page' = [page EXCEPT !.pc = "returned", !.tried = tried,
                                     !.result = Some(id)]
           ELSE IF HandledAsExtractorError(e)
           THEN page' = [page EXCEPT !.tried = tried,
                            !.pc = IF Len(tried) < Len(page.content_item_ids)
                                   THEN "candidates" ELSE "scrape"]
           ELSE page' = [page EXCEPT !.pc = "raised", !.tried = tried,
                                     !.error = e]
    /\ UnchangedCall

\* RaiIE: the relinker URL is searched in the web page
ScrapeRelinkerUrl(found) ==
    /\ page.pc = "scrape"
    /\ IF found
       THEN page' = [page EXCEPT !.pc = "relinker", !.scraped = TRUE]
       ELSE page' = [page EXCEPT !.pc = "raised", !.scraped = TRUE,
                        !.error = PageError("ExtractorError",
                                            "Unable to extract relinker URL")]
    /\ UnchangedCall

\* RaiNewsIE: the web page is read and player_data is searched
ReadPlayerData(has_relinker_url) ==
    /\ page.pc = "start"
    /\ page.extractor = "RaiNewsIE"
    /\ page' = [page EXCEPT
            !.pc = IF has_relinker_url THEN "relinker" ELSE "fallback",
            !.content_item_ids = IF has_relinker_url THEN <<>> ELSE <<VideoId>>]
    /\ UnchangedCall

\* RaiNewsIE: the fallback on _extract_from_content_id(video_id, url)
FallbackContentId(media, info) ==
    /\ page.pc = "fallback"
    /\ LET e == extract_from_content_id(media, info)
           tried == Append(page.tried, [id |-> VideoId, error |-> e])
       IN  IF e = NoPageError
           THEN page' = [page EXCEPT !.pc = "returned", !.tried = tried,
                                     !.result = Some(VideoId)]
           ELSE IF HandledAsExtractorError(e)
           THEN page' = [page EXCEPT !.pc = "raised", !.tried = tried,
                            !.error = [PageError("ExtractorError",
                                                 "Relinker URL not found")
                                        EXCEPT !.cause = e.type]]
           ELSE page' = [page EXCEPT !.pc = "raised", !.tried = tried,
                                     !.error = e]
    /\ UnchangedCall

\* _extract_relinker_info(urljoin(url, relinker_url), video_id) and the
\* return; title is whether the web page gives a title
ExtractRelinkerInfo(info, title) ==
    /\ page.pc = "relinker"
    /\ IF info # NoPageError
       THEN page' = [page EXCEPT !.pc = "raised", !.relinker = TRUE,
                                 !.error = info]
       ELSE IF ~title
       THEN page' = [page EXCEPT !.pc = "raised", !.relinker = TRUE,
                        !.error = PageError("ExtractorError",
                                            "Unable to extract OpenGraph title")]
       ELSE page' = [page EXCEPT !.pc = "returned", !.relinker = TRUE,
                                 !.result = Some(VideoId)]
    /\ UnchangedCall

NextPage ==
    \/ DownloadWebpageFails
    \/ \E content_item_id \in {None, Some(VideoId), Some(OtherId)} :
            CollectContentItemIds(content_item_id)
    \/ \E media \in Medias, info \in RelinkerInfos : TryContentId(media, info)
    \/ \E found \in BOOLEAN : ScrapeRelinkerUrl(found)
    \/ \E has_relinker_url \in BOOLEAN : ReadPlayerData(has_relinker_url)
    \/ \E media \in Medias, info \in RelinkerInfos :
            FallbackContentId(media, info)
    \/ \E info \in RelinkerInfos, title \in BOOLEAN :
            ExtractRelinkerInfo(info, title)

SpecPage == InitPage /\ [][NextPage]_vars

\* ----------------------------------------------------- _extract_subtitles
\* strings are sequences of characters here, so that slices are what they
\* are in the code
STL_EXT == <<"s", "t", "l">>

SRT_EXT == <<"s", "r", "t">>

VTT_EXT == <<"v", "t", "t">>

\* the characters [A-Za-z0-9] of the model's strings
Alnum == {"a", "b", "c", "h", "i", "l", "m", "p", "r", "s", "t", "v", "x"}

\* the members of KNOWN_EXTENSIONS among the model's strings
KNOWN_EXTENSIONS == {SRT_EXT, VTT_EXT}

\* 'http://x'
HostX == <<"h", "t", "t", "p", ":", "/", "/", "x">>

\* the page URL 'http://x/p/i.html'
PageUrl == HostX \o <<"/", "p", "/", "i", ".", "h", "t", "m", "l">>

\* the subtitle URLs of the model: '', 'http://x/a.stl', 'http://x/a.stl?v',
\* 'http://x/a.srt', 'http://x/a', '/b.stl', 'c.vtt', 'c.stl/'
SubUrls ==
    {<<>>,
     HostX \o <<"/", "a", ".">> \o STL_EXT,
     HostX \o <<"/", "a", ".">> \o STL_EXT \o <<"?", "v">>,
     HostX \o <<"/", "a", ".">> \o SRT_EXT,
     HostX \o <<"/", "a">>,
     <<"/", "b", ".">> \o STL_EXT,
     <<"c", ".">> \o VTT_EXT,
     <<"c", ".">> \o STL_EXT \o <<"/">>}

\* a value of video_data: None, an integer or a string
NoneValue == [type |-> "NoneType", s |-> <<>>]

IntValue == [type |-> "int", s |-> <<>>]

Str(s) == [type |-> "str", s |-> s]

Values == {NoneValue, IntValue} \cup {Str(s) : s \in SubUrls}

\* the values of 'language' of an entry of subtitlesArray: absent, '', 'en'
Languages == {None, Some(""), Some("en")}

\* the entries of subtitlesArray
SubtitleEntries ==
    [url : {NoneValue, Str(HostX \o <<"/", "a", ".">> \o STL_EXT),
            Str(<<"c", ".">> \o VTT_EXT)},
     language : Languages]

\* the longest subtitlesArray
MaxSubtitles == 1

SubtitlesArrays ==
    UNION {[1..n -> SubtitleEntries] : n \in 0..MaxSubtitles}

\* the first index of character c in s from index i on, Len(s) + 1 if none
RECURSIVE IndexFrom(_, _, _)
IndexFrom(s, c, i) ==
    IF i > Len(s) THEN Len(s) + 1
    ELSE IF s[i] = c THEN i ELSE IndexFrom(s, c, i + 1)

\* the last index of character c in s up to index i, 0 if none
RECURSIVE LastIndex(_, _, _)
LastIndex(s, c, i) ==
    IF i < 1 THEN 0
    ELSE IF s[i] = c THEN i ELSE LastIndex(s, c, i - 1)

\* s.rstrip('/')
RECURSIVE rstrip_slash(_)
rstrip_slash(s) ==
    IF s # <<>> /\ s[Len(s)] = "/" THEN rstrip_slash(SubSeq(s, 1, Len(s) - 1))
    ELSE s

\* url.partition('?')[0]
BeforeQuery(s) == SubSeq(s, 1, IndexFrom(s, "?", 1) - 1)

\* s.rpartition('.')[2]
AfterLastDot(s) == SubSeq(s, LastIndex(s, ".", Len(s)) + 1, Len(s))

\* determine_ext(url, default_ext) of a string
determine_ext_of(url, default_ext) ==
    IF IndexFrom(url, ".", 1) > Len(url) THEN default_ext
    ELSE LET guess == AfterLastDot(BeforeQuery(url))
         IN  IF guess # <<>> /\ \A i \in 1..Len(guess) : guess[i] \in Alnum
             THEN guess
             ELSE IF rstrip_slash(guess) \in KNOWN_EXTENSIONS
             THEN rstrip_slash(guess)
             ELSE default_ext

\* whether path matches ^(?:[a-zA-Z][a-zA-Z0-9+-.]*:)?// , for the strings
\* of the model
HasNetloc(path) ==
    LET colon == IndexFrom(path, ":", 1)
        from == IF colon <= Len(path) THEN colon + 1 ELSE 1
    IN  /\ Len(path) >= from + 1
        /\ path[from] = "/" /\ path[from + 1] = "/"
        /\ \A i \in 1..(from - 2) : path[i] \in Alnum

\* urljoin(base, path) for a base with a path and a non-empty string path:
\* path itself when it has a host, the host of base with path when path
\* starts with '/', else path in the directory of base
urljoin(base, path) ==
    IF HasNetloc(path) THEN path
    ELSE IF path[1] = "/"
    THEN SubSeq(base, 1, IndexFrom(base, "/", IndexFrom(base, ":", 1) + 3) - 1)
            \o path
    ELSE SubSeq(base, 1, LastIndex(base, "/", Len(base))) \o path

\* sub_url[:-len(STL_EXT)] + SRT_EXT
SrtUrl(sub_url) == SubSeq(sub_url, 1, Len(sub_url) - Len(STL_EXT)) \o SRT_EXT

\* subtitle.get('language') or 'it'
SubLang(language) ==
    IF language = None \/ language = Some("") THEN "it" ELSE language[1]

\* sub_url and isinstance(sub_url, compat_str)
Usable(sub_url) == sub_url.type = "str" /\ sub_url.s # <<>>

\* the keys a subtitles dict can have
SubLangs == {"it", "en"}

\* _extract_subtitles(url, video_data) is called
InitSubs ==
    /\ NoCall
    /\ page = NoPage
    /\ \E array \in SubtitlesArrays, s \in Values, u \in Values :
        subs = [pc |-> "start",
                video_data |-> [subtitlesArray |-> array, subtitles |-> s,
                                subtitlesUrl |-> u],
                subtitles_array |-> <<>>,
                done |-> 0,
                subtitles |-> [l \in SubLangs |-> <<>>]]

UnchangedSubs ==
    UNCHANGED <<pc, relinker_url, audio_only, platform, formats, geoprotection,
                is_live, duration, drm, calls, seen, mobj, result, error,
                probe, page>>

\* subtitles_array is built: subtitlesArray, then the entries of
\* 'subtitles' and 'subtitlesUrl'
BuildSubtitlesArray ==
    /\ subs.pc = "start"
    /\ subs' = [subs EXCEPT !.pc = "loop",
            !.subtitles_array = subs.video_data.subtitlesArray \o
                <<[url |-> subs.video_data.subtitles, language |-> None],
                  [url |-> subs.video_data.subtitlesUrl, language |-> None]>>]
    /\ UnchangedSubs

\* one turn of the loop over subtitles_array
Subtitle ==
    /\ subs.pc = "loop"
    /\ subs.done < Len(subs.subtitles_array)
    /\ LET subtitle == subs.subtitles_array[subs.done + 1]
           sub_lang == SubLang(subtitle.language)
           sub_url == urljoin(PageUrl, subtitle.url.s)
           sub_ext == determine_ext_of(sub_url, SRT_EXT)
           variants == <<[ext |-> sub_ext, url |-> sub_url]>> \o
                       IF STL_EXT = sub_ext
                       THEN <<[ext |-> SRT_EXT, url |-> SrtUrl(sub_url)]>>
                       ELSE <<>>
       IN  subs' = [subs EXCEPT !.done = subs.done + 1,
                !.subtitles =
                    IF Usable(subtitle.url)
                    THEN [subs.subtitles EXCEPT ![sub_lang] = @ \o variants]
                    ELSE subs.subtitles]
    /\ UnchangedSubs

\* return subtitles
ReturnSubtitles ==
    /\ subs.pc = "loop"
    /\ subs.done = Len(subs.subtitles_array)
    /\ subs' = [subs EXCEPT !.pc = "returned"]
    /\ UnchangedSubs

NextSubs ==
    \/ BuildSubtitlesArray
    \/ Subtitle
    \/ ReturnSubtitles

SpecSubs == InitSubs /\ [][NextSubs]_vars

\* ------------------------------------------------------------------ claims

\* the loop of lines 46-107 has ended without an exception
LoopOver ==
    \/ pc \in {"after_loop", "head_override", "head_bare"}
    \/ pc = "returned" /\ IsHttpUrl(relinker_url)

\* the call returned an outcome after the loop
Returned == pc = "returned" /\ IsHttpUrl(relinker_url)

\* the formats of the returned outcome
OutFormats == result[1].formats[1]

\* the lookups that raised
FailedLookups == {i \in 1..Len(calls) : calls[i][1] = "xml" /\ calls[i][3]}

\* the number of lookups issued
XmlCalls(c) == Cardinality({i \in 1..Len(c) : c[i][1] = "xml"})

HasMp3(fmts) == \E i \in 1..Len(fmts) : fmts[i].format_id = Some(<<"http", "mp3">>)

\* C1, as amended: when the loop has ended, the geo flag and the liveness
\* flag are true exactly when some reply carried 'Y', the duration is the
\* first non-zero duration of the replies and no non-zero number when there
\* is none, and the outcome carries these values.
C1_FirstTruthyWins ==
    LoopOver =>
        /\ geoprotection = Some(seen.geo_y)
        /\ is_live = Some(seen.live_y)
        /\ (seen.nonzero_duration # None => duration = seen.nonzero_duration)
        /\ (seen.nonzero_duration = None => ~TruthyNum(duration))
        /\ (pc = "returned" =>
                /\ result[1].is_live = is_live
                /\ (duration # None => result[1].duration = duration))

\* C1, as claimed: when the loop has ended, each of the geo flag, the
\* liveness flag and the duration is the first non-empty value the replies
\* carried, in probe order.
C1_FirstNonEmptyWins ==
    LoopOver =>
        /\ (seen.first_geo # None => geoprotection = Some(seen.first_geo = Some("Y")))
        /\ (seen.first_live # None => is_live = Some(seen.first_live = Some("Y")))
        /\ (seen.first_duration # None => duration = parse_duration(seen.first_duration))

\* C1: an outcome whose flags were 'N' first and 'Y' later, and whose
\* duration was zero first
C1_Witness ==
    /\ Returned
    /\ seen.first_geo = Some("N") /\ geoprotection = Some(TRUE)
    /\ seen.first_live = Some("N") /\ is_live = Some(TRUE)
    /\ seen.first_duration = Some("00:00:00") /\ duration = Some(7)

\* every profile was looked up and every reply carried the placeholder URL
OnlyPlaceholders == seen.replies = Len(Platforms) /\ seen.only_placeholders

\* C2, as amended: when every reply carries the placeholder URL the loop
\* gathers no format, whether the call then returns or raises, and an
\* outcome has no format unless audio_only is false and the HEAD probes led
\* to a match; its formats are then the synthesized https ones.
C2_NoProbeFormat ==
    OnlyPlaceholders =>
        /\ (pc # "returned" => formats = <<>>)
        /\ (pc = "returned" =>
                /\ \A i \in 1..Len(OutFormats) : OutFormats[i].protocol = Some("https")
                /\ (audio_only \/ ~mobj.matched => OutFormats = <<>>))

\* C2, as claimed: when every reply carries the placeholder URL the outcome
\* has zero formats.
C2_ZeroFormats == OnlyPlaceholders /\ pc = "returned" => OutFormats = <<>>

\* C2: an outcome of three placeholder replies, after both HEAD probes
C2_Witness ==
    /\ OnlyPlaceholders /\ pc = "returned" /\ ~audio_only
    /\ Len(calls) = 5 /\ OutFormats = <<>>

\* C3: from the end of the loop with no format and the geo flag true, the
\* call raises GeoRestrictedError with the countries ['IT'] and
\* metadata_available=True, returns nothing and issues no request.
C3_GeoRestricted ==
    [][pc = "after_loop" /\ formats = <<>> /\ geoprotection = Some(TRUE) =>
        /\ pc' = "raised"
        /\ error' = [type |-> "GeoRestrictedError", countries |-> Some(<<"IT">>),
                     metadata_available |-> TRUE]
        /\ result' = None
        /\ calls' = calls]_vars

\* C3: the call raised GeoRestrictedError after three lookups
C3_Witness ==
    pc = "raised" /\ error.type = "GeoRestrictedError" /\ XmlCalls(calls) = 3

\* C4, as amended: a lookup that raises, for whichever profile, makes the
\* call fail with that error, and no outcome is returned.
C4_AnyLookupFailureFatal ==
    FailedLookups # {} =>
        pc = "raised" /\ error = Raised("ExtractorError") /\ result = None

\* C4, as claimed: the call does not fail on a lookup that raises for flash
\* or native.
C4_SecondaryFailureSwallowed ==
    (\E i \in FailedLookups : calls[i][2] # "mon") => error.type # "ExtractorError"

\* C4: the lookup of native raised after formats were gathered
C4_Witness ==
    /\ pc = "raised" /\ formats # <<>>
    /\ \E i \in FailedLookups : calls[i][2] = "native"

\* C5, as claimed: no exception leaves _create_http_urls.
C5_CreateHttpUrlsNeverFails ==
    ~(pc = "raised" /\ calls # <<>> /\ calls[Len(calls)][1] = "head")

\* C6, as amended: an outcome has no duration when no reply carried one; it
\* always has is_live, which is False when no reply carried the element.
C6_DurationOmittedLiveDefaulted ==
    Returned =>
        /\ (seen.first_duration = None => "duration" \notin DOMAIN result[1])
        /\ "is_live" \in DOMAIN result[1]
        /\ (seen.first_live = None => result[1].is_live = Some(FALSE))

\* C6, as claimed: an outcome has no is_live when no reply carried the
\* element, and no duration when no reply carried one.
C6_UndeterminedOmitted ==
    Returned =>
        /\ (seen.first_live = None => "is_live" \notin DOMAIN result[1])
        /\ (seen.first_duration = None => "duration" \notin DOMAIN result[1])

\* C6: an outcome of three replies with neither element
C6_Witness ==
    /\ Returned /\ seen.replies = 3
    /\ seen.first_live = None /\ seen.first_duration = None

\* C7: once formats holds the format of an mp3 reply, no lookup is issued.
C7_NoLookupAfterMp3 ==
    [][HasMp3(formats) => XmlCalls(calls') = XmlCalls(calls)]_vars

\* C7: an outcome of an mp3 reply of mon, the one lookup of the call
C7_Witness ==
    Returned /\ HasMp3(OutFormats) /\ XmlCalls(calls) = 1

\* C8, as amended: an outcome of an mp3 reply has exactly one http-mp3
\* format; it is audio-only, the formats before it are those of the earlier
\* profiles, the formats after it are the synthesized https ones, and with
\* audio_only it is the last.
C8_OneMp3Format ==
    Returned /\ HasMp3(OutFormats) =>
        \E i \in 1..Len(OutFormats) :
            /\ OutFormats[i].format_id = Some(<<"http", "mp3">>)
            /\ OutFormats[i].vcodec = Some("none")
            /\ \A j \in 1..Len(OutFormats) :
                /\ (j # i => OutFormats[j].format_id # Some(<<"http", "mp3">>))
                /\ (j < i => OutFormats[j].protocol # Some("https"))
                /\ (j > i => OutFormats[j].protocol = Some("https"))
            /\ (audio_only => i = Len(OutFormats))

\* C8, as claimed: an outcome of an mp3 reply has exactly one format, the
\* audio-only http-mp3.
C8_ExactlyOneFormat ==
    Returned /\ HasMp3(OutFormats) =>
        /\ Len(OutFormats) = 1
        /\ OutFormats[1].format_id = Some(<<"http", "mp3">>)
        /\ OutFormats[1].vcodec = Some("none")

\* C8: an outcome of an mp3 reply of flash after the renditions of mon
C8_Witness ==
    /\ Returned /\ HasMp3(OutFormats) /\ XmlCalls(calls) = 2
    /\ Len(OutFormats) >= 3

\* the tokens of the documented tier set among those of the model
TierLists == {ts \in TokenLists : \A i \in 1..Len(ts) : ts[i] \in DOMAIN Quality}

\* the formats of the outcome that _create_http_urls made
HttpsFormats == SelectSeq(OutFormats, LAMBDA f : f.protocol = Some("https"))

\* C9: when the match captured a quality list t1,...,tn of tier tokens
\* (bare, or with a leading and a trailing comma), the call returns, and the
\* https formats of the outcome are n, the i-th with the id https-<ti>, the
\* protocol https and the container mp4, at the end of the formats.
C9_TierDescriptors ==
    \A ts \in TierLists :
        mobj.matched /\ mobj.quality \in {Some(Join(ts)), Some(<<",">> \o Join(ts) \o <<",">>)} =>
            /\ pc = "returned"
            /\ Len(HttpsFormats) = Len(ts)
            /\ \A i \in 1..Len(ts) :
                /\ HttpsFormats[i].format_id = Some(<<"https", ts[i]>>)
                /\ HttpsFormats[i].ext = Some("mp4")
                /\ HttpsFormats[i].url = Some(Mp4Tmpl(relinker_url, ts[i]))
            /\ SubSeq(OutFormats, Len(OutFormats) - Len(ts) + 1, Len(OutFormats)) = HttpsFormats

\* C9: the quality list 250,400 was captured after two renditions and a file
C9_Witness ==
    /\ pc = "returned" /\ mobj.matched
    /\ mobj.quality = Some(<<"250", ",", "400">>)
    /\ Len(OutFormats) = 5

\* C10, as claimed: no two formats of an outcome have the same format id.
C10_FormatIdsUnique ==
    pc = "returned" =>
        \A i, j \in 1..Len(OutFormats) :
            i # j => OutFormats[i].format_id # OutFormats[j].format_id

\* C13: for a relinker_url that starts with neither http:// nor https://, no
\* request is issued, no DRM is reported and nothing is raised, and what is
\* returned is the one key formats with the one format whose only key is url,
\* the literal input.
C13_LiteralFormat ==
    relinker_url.scheme \notin {"http", "https"} =>
        /\ calls = <<>> /\ ~drm /\ error = NoError
        /\ pc \in {"start", "returned"}
        /\ (pc = "returned" =>
                /\ DOMAIN result[1] = {"formats"}
                /\ OutFormats = <<[NoFormat EXCEPT !.url = Some(relinker_url)]>>)

\* C13: the call returned for the literal clip.mp4
C13_Witness ==
    pc = "returned" /\ relinker_url.scheme = "" /\ Len(OutFormats) = 1

\* C14, as amended: from the end of the loop with no format and the geo flag
\* not true, the call does not fail for the lack of formats: with audio_only
\* it returns at once, otherwise it goes through the HEAD probes, and unless
\* these lead to a match it returns; the returned outcome has the empty
\* format list.
C14_EmptyOutcomeReturned ==
    [][formats = <<>> /\ geoprotection # Some(TRUE) =>
        /\ (pc = "after_loop" =>
                /\ error' = NoError
                /\ pc' = (IF audio_only THEN "returned" ELSE "head_override"))
        /\ (pc = "head_override" =>
                error' = NoError /\ pc' \in {"returned", "head_bare"})
        /\ (pc = "head_bare" /\ ~mobj'.matched =>
                error' = NoError /\ pc' = "returned")
        /\ (pc \in {"after_loop", "head_override", "head_bare"}
                /\ pc' = "returned" /\ ~mobj'.matched =>
                    result'[1].formats = Some(<<>>))]_vars

\* the formats of the probe loop: those that _create_http_urls did not make
LoopFormats == SelectSeq(formats, LAMBDA f : f.protocol # Some("https"))

\* C14, as claimed: after three replies that gave no format, with the geo
\* flag not true, no outcome is returned.
C14_NoFormatsFails ==
    seen.replies = Len(Platforms) /\ LoopFormats = <<>> /\ geoprotection # Some(TRUE)
        => pc # "returned"

\* C14: an outcome with the empty format list, with audio_only after three
\* replies
C14_Witness ==
    /\ Returned /\ audio_only /\ seen.replies = Len(Platforms)
    /\ geoprotection = Some(FALSE) /\ OutFormats = <<>>

\* C16, as claimed: no reply classified as a direct file makes the call
\* fail (the one exception the loop body itself raises is that of line 105).
C16_DirectFileNeverFails ==
    ~(/\ pc = "raised" /\ error = Raised("TypeError")
      /\ calls[Len(calls)] = <<"xml", "native", FALSE>>)

\* the HEAD probes issued
Heads == {i \in 1..Len(calls) : calls[i][1] = "head"}

IsSynthesized(f) == f.format_id # None /\ f.format_id[1][1] = "https"

\* C17: every HEAD probe comes after every request of the probe loop, none
\* is issued with audio_only or when GeoRestrictedError is raised, at most
\* two are issued, and in an outcome every https- format follows every
\* format of the probe loop.
C17_SynthesisLast ==
    /\ \A i \in Heads : \A j \in 1..Len(calls) : j \notin Heads => j < i
    /\ (Heads # {} => pc \in {"head_bare", "returned", "raised"})
    /\ (audio_only => Heads = {})
    /\ (error.type = "GeoRestrictedError" => Heads = {})
    /\ Cardinality(Heads) <= 2
    /\ (Returned =>
            \A i, j \in 1..Len(OutFormats) :
                IsSynthesized(OutFormats[i]) /\ ~IsSynthesized(OutFormats[j]) => j < i)

\* C17: an outcome with formats of the loop and synthesized ones, after two
\* HEAD probes
C17_Witness ==
    /\ Returned /\ Cardinality(Heads) = 2 /\ seen.replies = Len(Platforms)
    /\ \E i, j \in 1..Len(OutFormats) :
            IsSynthesized(OutFormats[i]) /\ ~IsSynthesized(OutFormats[j])

\* a step of the loop body that read a reply
ReadStep == seen'.replies = seen.replies + 1

\* the step issued the request of the HLS manifest expansion
HlsCalled == \E i \in (Len(calls) + 1)..Len(calls') : calls'[i][1] = "m3u8"

\* the media URL of the reply the step read is there and is no placeholder
MediaUrlRead == probe'.url_elem # None /\ ~IsPlaceholder(probe'.url_elem[1])

\* C15, as amended: a non-placeholder media URL is handed to the HLS
\* expansion when it has the extension m3u8 and comes from mon, when it
\* carries the marker format=m3u8 and its extension is none of mp3, m3u8 and
\* f4m, and when it comes from mon and its extension is neither mp3 nor f4m;
\* one with the extension m3u8 from flash or native, or f4m from mon or
\* native, is skipped; an expansion adds the renditions it got, none when it
\* failed, and the loop goes on.
C15_HlsExpansion ==
    [][ReadStep =>
        LET p == Platforms[platform]
            u == probe'.url_elem[1]
            ext == determine_ext(u)
        IN  /\ (MediaUrlRead /\ ext = "m3u8" /\ p = "mon" => HlsCalled)
            /\ (MediaUrlRead /\ HasM3u8Marker(u) /\ ext \notin {"mp3", "m3u8", "f4m"}
                    => HlsCalled)
            /\ (MediaUrlRead /\ p = "mon" /\ ext \notin {"mp3", "f4m"} => HlsCalled)
            /\ (MediaUrlRead /\ ((ext = "m3u8" /\ p # "mon") \/ (ext = "f4m" /\ p # "flash"))
                    => /\ ~HlsCalled /\ formats' = formats /\ error' = NoError
                       /\ pc' \in {"lookup", "after_loop"})
            /\ (HlsCalled =>
                    /\ error' = NoError /\ pc' \in {"lookup", "after_loop"}
                    /\ \E got \in M3u8Results : formats' = formats \o got)]_vars

\* C15, as claimed: every non-placeholder media URL with the extension m3u8
\* or the marker format=m3u8, from whichever profile, and every non-mp3 one
\* from mon, is handed to the HLS expansion.
C15_EveryHlsMarkerExpanded ==
    [][ReadStep /\ MediaUrlRead =>
        LET p == Platforms[platform]
            u == probe'.url_elem[1]
            ext == determine_ext(u)
        IN  (ext = "m3u8" \/ HasM3u8Marker(u) \/ (p = "mon" /\ ext # "mp3"))
                => HlsCalled]_vars

\* C15: the reply of native carried the marker format=m3u8 and was expanded
C15_Witness ==
    /\ probe.recording /\ probe.url_elem = Some(Url("clip", "mp4", "format=m3u8"))
    /\ calls # <<>> /\ calls[Len(calls)] = <<"m3u8", "native", FALSE>>
    /\ formats # <<>>

\* C11: an attempt on a content id that fails with GeoRestrictedError is the
\* last thing the page extractor does: the extraction fails with that same
\* exception, no further candidate is tried, the relinker URL is not searched
\* in the page and no relinker call follows. In RaiIE an attempt that fails
\* with another ExtractorError is followed by the next candidate, and by the
\* search of the relinker URL after the last candidate. In RaiNewsIE a
\* fallback that fails with another ExtractorError fails the extraction with
\* 'Relinker URL not found' caused by it.
C11_GeoNeverSwallowed ==
    page.pc # "none" =>
        \A i \in 1..Len(page.tried) :
            LET e == page.tried[i].error
                last == i = Len(page.tried)
            IN  /\ e.type = "GeoRestrictedError" =>
                    /\ last
                    /\ page.pc = "raised"
                    /\ page.error = e
                    /\ ~page.scraped
                    /\ ~page.relinker
                /\ (page.extractor = "RaiIE" /\ e.type = "ExtractorError") =>
                    IF ~last THEN page.tried[i + 1].id = page.content_item_ids[i + 1]
                    ELSE IF i < Len(page.content_item_ids)
                    THEN page.pc = "candidates"
                    ELSE page.pc = "scrape" \/ page.scraped
                /\ (page.extractor = "RaiNewsIE" /\ e.type = "ExtractorError") =>
                    /\ page.pc = "raised"
                    /\ page.error.type = "ExtractorError"
                    /\ page.error.msg = "Relinker URL not found"
                    /\ page.error.cause = "ExtractorError"

\* C11: RaiIE tried two candidates, the first failed with an ExtractorError
\* and the second with GeoRestrictedError, which ended the extraction
C11_Witness ==
    /\ page.pc = "raised"
    /\ page.extractor = "RaiIE"
    /\ Len(page.tried) = 2
    /\ page.tried[1].error.type = "ExtractorError"
    /\ page.tried[2].error = GeoRestrictedError
    /\ page.error = GeoRestrictedError
    /\ ~page.scraped

\* the URL with the extension after the last dot of its path replaced by srt
WithSrtSuffix(url) ==
    LET path == BeforeQuery(url)
    IN  SubSeq(path, 1, Len(path) - Len(STL_EXT)) \o SRT_EXT \o
        SubSeq(url, Len(path) + 1, Len(url))

\* what the claim says the first n entries of array yield
RECURSIVE ClaimedSubtitles(_, _)
ClaimedSubtitles(array, n) ==
    IF n = 0 THEN [l \in SubLangs |-> <<>>]
    ELSE LET before == ClaimedSubtitles(array, n - 1)
             subtitle == array[n]
             url == urljoin(PageUrl, subtitle.url.s)
             ext == determine_ext_of(url, SRT_EXT)
         IN  IF ~Usable(subtitle.url) THEN before
             ELSE [before EXCEPT ![SubLang(subtitle.language)] =
                    @ \o <<[ext |-> ext, url |-> url]>> \o
                    IF ext = STL_EXT
                    THEN <<[ext |-> SRT_EXT, url |-> WithSrtSuffix(url)]>>
                    ELSE <<>>]

\* C12, as claimed: the subtitles returned hold, for every entry with a usable
\* string URL and in the order of the entries, one variant with the URL
\* resolved against the page URL and its extension under the entry's language
\* ('it' when none is given), followed, if and only if that extension is stl,
\* by a variant with the extension srt and the same URL with stl replaced
\* by srt.
C12_SubtitleVariants ==
    subs.pc = "returned" =>
        subs.subtitles =
            ClaimedSubtitles(subs.subtitles_array, Len(subs.subtitles_array))

====
